---- MODULE Spec2Model ----
(***************************************************************************)
(* A model of the LDPC construction engine of ProtographLDPC:              *)
(*   libs/RegularLDPC.py     RegularLDPC.__init__, get_parity_check_graph  *)
(*                           (gallager, populate-rows, populate-columns),  *)
(*                           merge, SubGraph                               *)
(*   libs/ProtographLDPC.py  ProtographLDPC.expanded_protograph,           *)
(*                           submatrix, construct_cyclic_submatrix         *)
(* A Tanner graph is a function from check-node index to the sequence of   *)
(* variable-node indices the node lists (a Python dict of lists).  Every   *)
(* draw from the random module is a nondeterministic choice.               *)
(***************************************************************************)
EXTENDS Integers, Sequences, FiniteSets

\* ------------------------------------------------------------------ bounds

\* populate-rows / populate-columns: the codeword length n and the budget
\* n * c of the direct calls
MaxN == 4
MaxBudget == 8
\* gallager: codeword length n and column weight c of the direct calls
MaxGallagerN == 3
MaxGallagerC == 3
\* RegularLDPC(args, construction): every entry of args = [n, height, c]
MaxArg == 3
\* submatrix("permutation", f, k): the size f of the direct calls
MaxPermFactor == 3
\* submatrix("quasi-cyclic", f, v): the size f of the direct calls
MaxCyclicFactor == 4
\* expanded_protograph: the lift factor and the number of protograph cells
MaxLiftFactor == 3
MaxProtoCells == 2

VARIABLES
    args,               \* RegularLDPC.args: <<n, height, c>>, or <<>> for a static call
    method,             \* the construction handed to get_parity_check_graph
    height,             \* RegularLDPC.height (0 for a static call)
    n, r, c,            \* the arguments of get_parity_check_graph
    tanner_graph,       \* the graph under construction
    available_indices,  \* populate-*: the remaining budget
    placed_entries,     \* populate-*: entries consumed from the budget
    i, j,               \* populate-*: the loop counters
    branch,             \* populate-*: the branch the last placement took
    fallback_taken,     \* populate-*: whether any placement took the fallback branch
    submatrices,        \* gallager: the SubGraph maps created so far
    returned,           \* the graph get_parity_check_graph returned
    error,              \* the exception raised, or "none"
    pc,                 \* where RegularLDPC / get_parity_check_graph stands
    construction,       \* ProtographLDPC: the (submatrix) construction name
    factor,             \* ProtographLDPC: the lift factor, the submatrix size
    num_ones_per_row,   \* submatrix: the multiplicity asked for
    start,              \* submatrix, permutation: the accumulated graph
    trial_outcome,      \* submatrix, permutation: what became of the last trial_permutation
    absorbed,           \* submatrix, permutation: the samples start is made of
    perm_i,             \* submatrix, permutation: the counter of the for loop
    qc_graph,           \* submatrix, (permuted-)quasi-cyclic: the graph
    first_row_indices,  \* construct_cyclic_submatrix: the current index list
    qc_i,               \* construct_cyclic_submatrix: the loop counter
    put_aliases,        \* whether TannerGraph.put keeps the list it is handed
    sub_returned,       \* the graph submatrix returned
    sub_pc,             \* where submatrix stands
    protograph,         \* expanded_protograph: the protograph, row -> col -> value
    expanded,           \* expanded_protograph: the graph being filled
    lift_r, lift_c,     \* expanded_protograph: the loop counters r and c
    lift_returned,      \* the graph expanded_protograph returned
    lift_pc             \* where expanded_protograph stands

regularVars == <<args, method, height, n, r, c, tanner_graph, available_indices,
                 placed_entries, i, j, branch, fallback_taken, submatrices,
                 returned, error, pc>>

subVars == <<construction, factor, num_ones_per_row, start, trial_outcome,
             absorbed, perm_i, qc_graph, first_row_indices, qc_i, put_aliases,
             sub_returned, sub_pc>>

liftVars == <<protograph, expanded, lift_r, lift_c, lift_returned, lift_pc>>

vars == <<regularVars, subVars, liftVars>>

\* ----------------------------------------------------------------- helpers

\* int(a / b) on non-negative integers with b > 0
IntDiv(a, b) == a \div b

\* list.count(x)
Count(seq, x) == Cardinality({p \in 1..Len(seq) : seq[p] = x})

\* list.pop(p), p a 0-based position: the remaining list
PopAt_Keep(seq, p) == seq
PopAt(seq, p) == SubSeq(seq, 1, p) \o SubSeq(seq, p + 2, Len(seq))

\* {row: [] for row in range(h)}
EmptyGraph(h) == [row \in 0..(h - 1) |-> <<>>]

\* a value for "no graph"
NoGraph == <<"no graph">>

\* all orderings of range(0, m), as 1-based sequences
Orderings(m) ==
    {s \in [1..m -> 0..(m - 1)] : \A p, q \in 1..m : p # q => s[p] # s[q]}

\* the elements of a finite set of integers in ascending order
RECURSIVE Ascending(_)
Ascending(S) ==
    IF S = {} THEN <<>>
    ELSE LET m == CHOOSE x \in S : \A y \in S : x <= y
         IN  <<m>> \o Ascending(S \ {m})

\* ------------------------------------------------- populate-rows / columns

\* the number of lists filled by the outer loop
OuterCount == IF method = "populate-rows" THEN IntDiv(n * c, r) ELSE n
\* the number of entries placed in each list by the inner loop
InnerCount == IF method = "populate-rows" THEN r ELSE c
\* the range indices are drawn from (width for rows, height for columns)
IndexRange == IF method = "populate-rows" THEN n ELSE IntDiv(n * c, r)

\* available_indices as first filled: i % width for i = k-1 down to 0
InitialAvailable(k, modulus) == [p \in 1..k |-> (k - p) % modulus]

\* the scan: l is the number of leading entries of available_indices that the
\* list under construction already holds once
ScanL(avail, row) ==
    LET stops == {p \in 1..Len(avail) : Count(row, avail[p]) # 1}
    IN  IF stops = {} THEN Len(avail)
        ELSE (CHOOSE p \in stops : \A q \in stops : p <= q) - 1

\* "if l + placed_entries == k"
FallbackCondition(l, placed, k) == l + placed = k

\* the positions the draw from range(len(available_indices)) can end on: the
\* redraw loop stops on a position whose index the list does not hold, or on
\* any position once a single entry is left
AvailableDraws_NoRedraw(avail, row) == 0..(Len(avail) - 1)
AvailableDraws(avail, row) ==
    {p \in 0..(Len(avail) - 1) : ~(Count(row, avail[p + 1]) # 0 /\ Len(avail) > 1)}

\* the indices the fallback draw from range(width) can end on
FallbackDraws(row, range) == {x \in 0..(range - 1) : Count(row, x) # 1}

\* transpose(tanner_graph, height): check node h lists the variable nodes
\* whose list holds h
transpose(graph, h) ==
    [row \in 0..(h - 1) |->
        Ascending({col \in DOMAIN graph : Count(graph[col], row) > 0})]

\* the loop counters after one placement, and the return once both loops end
Advance ==
    LET last_j == (j + 1 = InnerCount)
        last_i == last_j /\ (i + 1 = OuterCount)
    IN  /\ j' = IF last_j THEN 0 ELSE j + 1
        /\ i' = IF last_j THEN i + 1 ELSE i
        /\ pc' = IF last_i THEN "done" ELSE "place"
        /\ returned' = IF ~last_i THEN returned
                       ELSE IF method = "populate-rows" THEN tanner_graph'
                       ELSE transpose(tanner_graph', IntDiv(n * c, r))

\* get_parity_check_graph, populate-rows and populate-columns: the empty graph
\* and the budget
PopulateSetup ==
    /\ pc = "dispatch"
    /\ method \in {"populate-rows", "populate-columns"}
    /\ r > 0
    /\ tanner_graph' = EmptyGraph(OuterCount)
    /\ available_indices' = InitialAvailable(n * c, IndexRange)
    /\ placed_entries' = 0
    /\ i' = 0
    /\ j' = 0
    /\ pc' = IF OuterCount = 0 \/ InnerCount = 0 THEN "done" ELSE "place"
    /\ returned' = IF ~(OuterCount = 0 \/ InnerCount = 0) THEN returned
                   ELSE IF method = "populate-rows" THEN tanner_graph'
                   ELSE transpose(tanner_graph', IntDiv(n * c, r))
    /\ UNCHANGED <<args, method, height, n, r, c, branch, fallback_taken,
                   submatrices, error>>
    /\ UNCHANGED <<subVars, liftVars>>

\* one pass of the inner loop body, else branch: an entry of the budget is
\* consumed
PlaceAvailable ==
    /\ pc = "place"
    /\ ~FallbackCondition(ScanL(available_indices, tanner_graph[i]),
                          placed_entries, n * c)
    /\ \E random_index \in AvailableDraws(available_indices, tanner_graph[i]) :
          /\ tanner_graph' = [tanner_graph EXCEPT ![i] =
                                Append(@, available_indices[random_index + 1])]
          /\ available_indices' = PopAt(available_indices, random_index)
    /\ placed_entries' = placed_entries + 1
    /\ branch' = "available"
    /\ Advance
    /\ UNCHANGED <<args, method, height, n, r, c, fallback_taken, submatrices, error>>
    /\ UNCHANGED <<subVars, liftVars>>

\* one pass of the inner loop body, if branch: an index of the full range is
\* drawn
PlaceFallback ==
    /\ pc = "place"
    /\ FallbackCondition(ScanL(available_indices, tanner_graph[i]),
                         placed_entries, n * c)
    /\ \E random_index \in FallbackDraws(tanner_graph[i], IndexRange) :
          tanner_graph' = [tanner_graph EXCEPT ![i] = Append(@, random_index)]
    /\ branch' = "fallback"
    /\ fallback_taken' = TRUE
    /\ Advance
    /\ UNCHANGED <<args, method, height, n, r, c, available_indices,
                   placed_entries, submatrices, error>>
    /\ UNCHANGED <<subVars, liftVars>>

\* the fallback redraw loop when the list already holds every index of the
\* range: no draw ends it, and the call never returns
FallbackSpins ==
    /\ pc = "place"
    /\ FallbackCondition(ScanL(available_indices, tanner_graph[i]),
                         placed_entries, n * c)
    /\ FallbackDraws(tanner_graph[i], IndexRange) = {}
    /\ pc' = "spin"
    /\ branch' = "fallback"
    /\ fallback_taken' = TRUE
    /\ UNCHANGED <<args, method, height, n, r, c, tanner_graph, available_indices,
                   placed_entries, i, j, submatrices, returned, error>>
    /\ UNCHANGED <<subVars, liftVars>>

\* ------------------------------------------------------------------ gallager

\* SubGraph.__init__: int(n / r) check nodes, node x holding entries
\* x*r .. x*r + r-1 of the shuffled codeword_indices
SubGraph(codeword_indices, nn, rr) ==
    [row \in 0..(IntDiv(nn, rr) - 1) |->
        [q \in 1..rr |-> codeword_indices[row * rr + q]]]

\* the key merge stores row y of submatrix x under: int(x * n / r + y)
MergeKey(x, y, nn, rr) == IntDiv(x * nn, rr) + y

\* RegularLDPC.merge: the dict after every assignment; a key assigned twice
\* keeps the later value
merge(subs, nn, rr) ==
    LET pairs == (0..(Len(subs) - 1)) \X (0..(IntDiv(nn, rr) - 1))
        keys == {MergeKey(p[1], p[2], nn, rr) : p \in pairs}
        later(p, q) == p[1] < q[1] \/ (p[1] = q[1] /\ p[2] <= q[2])
        last(key) == CHOOSE p \in pairs :
                        /\ MergeKey(p[1], p[2], nn, rr) = key
                        /\ \A q \in pairs :
                              MergeKey(q[1], q[2], nn, rr) = key => later(q, p)
    IN  [key \in keys |-> subs[last(key)[1] + 1][last(key)[2]]]

\* get_parity_check_graph, gallager: one pass of the loop that appends a
\* SubGraph built on a fresh shuffle; the last pass returns the merge.  (The
\* warning printed when n % r != 0 changes no state.)
GallagerSubGraph ==
    /\ pc = "dispatch"
    /\ method = "gallager"
    /\ r > 0
    /\ Len(submatrices) < c
    /\ \E codeword_indices \in Orderings(n) :
          submatrices' = Append(submatrices, SubGraph(codeword_indices, n, r))
    /\ pc' = IF Len(submatrices') = c THEN "done" ELSE "dispatch"
    /\ returned' = IF Len(submatrices') = c THEN merge(submatrices', n, r)
                   ELSE returned
    /\ UNCHANGED <<args, method, height, n, r, c, tanner_graph, available_indices,
                   placed_entries, i, j, branch, fallback_taken, error>>
    /\ UNCHANGED <<subVars, liftVars>>

\* --------------------------------------------------- errors and the object

\* n % r, int(n * c / r) with r = 0
RaiseZeroDivision ==
    /\ pc = "dispatch"
    /\ method \in {"gallager", "populate-rows", "populate-columns"}
    /\ r = 0
    /\ error' = "ZeroDivisionError"
    /\ pc' = "error"
    /\ UNCHANGED <<args, method, height, n, r, c, tanner_graph, available_indices,
                   placed_entries, i, j, branch, fallback_taken, submatrices,
                   returned>>
    /\ UNCHANGED <<subVars, liftVars>>

\* raise RuntimeError('Invalid construction method')
RaiseInvalidMethod ==
    /\ pc = "dispatch"
    /\ method \notin {"gallager", "populate-rows", "populate-columns"}
    /\ error' = "Invalid construction method"
    /\ pc' = "error"
    /\ UNCHANGED <<args, method, height, n, r, c, tanner_graph, available_indices,
                   placed_entries, i, j, branch, fallback_taken, submatrices,
                   returned>>
    /\ UNCHANGED <<subVars, liftVars>>

\* int((width / height) * c)
InferredR(w, h, cc) == IntDiv(w * cc, h)

\* RegularLDPC.__init__: width, height, n, c from args, r inferred, then the
\* call of get_parity_check_graph
RegularLDPC_init ==
    /\ pc = "init"
    /\ IF Len(args) = 3
       THEN /\ height' = args[2]
            /\ n' = args[1]
            /\ c' = args[3]
            /\ r' = InferredR(args[1], args[2], args[3])
            /\ pc' = "dispatch"
            /\ error' = error
       ELSE /\ error' = "invalid input provided"
            /\ pc' = "error"
            /\ UNCHANGED <<height, n, c, r>>
    /\ UNCHANGED <<args, method, tanner_graph, available_indices, placed_entries,
                   i, j, branch, fallback_taken, submatrices, returned>>
    /\ UNCHANGED <<subVars, liftVars>>

\* ----------------------------------------------- ProtographLDPC.submatrix

\* random.sample(range(m), k): k distinct indices of range(m), in any order
Samples(m, k) ==
    {s \in [1..k -> 0..(m - 1)] : \A p, q \in 1..k : p # q => s[p] # s[q]}

\* Identity(list): the permutation graph, row x listing the single column
\* list[x]
Identity(sample) == [row \in 0..(Len(sample) - 1) |-> <<sample[row + 1]>>]

\* Identity.overlaps: some row lists the same column in both graphs
overlaps(a, b) ==
    \E row \in DOMAIN a \cap DOMAIN b :
        \E p \in 1..Len(a[row]) : Count(b[row], a[row][p]) > 0

\* Identity.absorb_nonoverlapping(other, [row offset, column offset]): the
\* union of both edge sets
absorb_nonoverlapping(a, b, offset) ==
    [row \in DOMAIN a |->
        IF (row - offset[1]) \in DOMAIN b
        THEN a[row] \o [p \in 1..Len(b[row - offset[1]]) |->
                            b[row - offset[1]][p] + offset[2]]
        ELSE a[row]]

\* "if not start.overlaps(trial_permutation)"
TrialAccepted_Always(acc, trial) == TRUE
TrialAccepted(acc, trial) == ~overlaps(acc, trial)

\* submatrix, permutation: the first random permutation; with one 1 per row it
\* is returned, and so it is when the for loop has no pass to make
PermutationStart ==
    /\ sub_pc = "call"
    /\ construction = "permutation"
    /\ \E sample \in Samples(factor, factor) :
          /\ start' = Identity(sample)
          /\ absorbed' = <<sample>>
    /\ perm_i' = 0
    /\ IF num_ones_per_row = 1 \/ num_ones_per_row - 1 <= 0
       THEN sub_pc' = "done" /\ sub_returned' = start'
       ELSE sub_pc' = "loop" /\ sub_returned' = sub_returned
    /\ UNCHANGED <<construction, factor, num_ones_per_row, trial_outcome,
                   qc_graph, first_row_indices, qc_i, put_aliases>>
    /\ UNCHANGED <<regularVars, liftVars>>

\* one pass of "while True" whose trial permutation overlaps: drawn again
TrialRejected ==
    /\ sub_pc = "loop"
    /\ \E sample \in Samples(factor, factor) :
          ~TrialAccepted(start, Identity(sample))
    /\ trial_outcome' = "rejected"
    /\ UNCHANGED <<construction, factor, num_ones_per_row, start, absorbed, perm_i,
                   qc_graph, first_row_indices, qc_i, put_aliases, sub_returned,
                   sub_pc>>
    /\ UNCHANGED <<regularVars, liftVars>>

\* one pass of "while True" whose trial permutation is absorbed: the break, the
\* next pass of the for loop, and the return after its last pass
TrialAbsorbed ==
    /\ sub_pc = "loop"
    /\ \E sample \in Samples(factor, factor) :
          /\ TrialAccepted(start, Identity(sample))
          /\ start' = absorb_nonoverlapping(start, Identity(sample), <<0, 0>>)
          /\ absorbed' = Append(absorbed, sample)
    /\ trial_outcome' = "absorbed"
    /\ perm_i' = perm_i + 1
    /\ IF perm_i + 1 = num_ones_per_row - 1
       THEN sub_pc' = "done" /\ sub_returned' = start'
       ELSE sub_pc' = "loop" /\ sub_returned' = sub_returned
    /\ UNCHANGED <<construction, factor, num_ones_per_row, qc_graph,
                   first_row_indices, qc_i, put_aliases>>
    /\ UNCHANGED <<regularVars, liftVars>>

\* make_graph(factor, factor, factor): an empty graph of factor check nodes
make_graph(h) == EmptyGraph(h)

\* right_shift_row(row, width): every index advances by one, modulo width
right_shift_row(row, width) == [p \in 1..Len(row) |-> (row[p] + 1) % width]

\* submatrix, quasi-cyclic: the graph and the sampled first row
QuasiCyclicStart ==
    /\ sub_pc = "call"
    /\ construction = "quasi-cyclic"
    /\ qc_graph' = make_graph(factor)
    /\ first_row_indices' \in Samples(factor, num_ones_per_row)
    /\ qc_i' = 0
    /\ sub_pc' = "cyclic"
    /\ UNCHANGED <<construction, factor, num_ones_per_row, start, trial_outcome,
                   absorbed, perm_i, put_aliases, sub_returned>>
    /\ UNCHANGED <<regularVars, liftVars>>

\* submatrix, permuted-quasi-cyclic: the graph and the first row 0 .. v-1
PermutedQuasiCyclicStart ==
    /\ sub_pc = "call"
    /\ construction = "permuted-quasi-cyclic"
    /\ qc_graph' = make_graph(factor)
    /\ first_row_indices' = [p \in 1..num_ones_per_row |-> p - 1]
    /\ qc_i' = 0
    /\ sub_pc' = "cyclic"
    /\ UNCHANGED <<construction, factor, num_ones_per_row, start, trial_outcome,
                   absorbed, perm_i, put_aliases, sub_returned>>
    /\ UNCHANGED <<regularVars, liftVars>>

\* construct_cyclic_submatrix, "graph.put(i, new)" followed by
\* "right_shift_row(new, graph.width)": the row stored for check node i, which
\* is the shifted list when put keeps the list object it is handed
StoredRow(new, width, aliased) ==
    IF aliased THEN right_shift_row(new, width) ELSE new

\* construct_cyclic_submatrix, "first_row_indices = new" after the shift
NextFirstRow_Stale(new, width) == new
NextFirstRow(new, width) == right_shift_row(new, width)

\* one pass of the loop of construct_cyclic_submatrix; after the last pass the
\* quasi-cyclic graph is returned, the permuted one goes on to be permuted
CyclicRow ==
    /\ sub_pc = "cyclic"
    /\ qc_i < factor
    /\ qc_graph' = [qc_graph EXCEPT
                       ![qc_i] = StoredRow(first_row_indices, factor, put_aliases)]
    /\ first_row_indices' = NextFirstRow(first_row_indices, factor)
    /\ qc_i' = qc_i + 1
    /\ IF qc_i + 1 < factor
       THEN sub_pc' = "cyclic" /\ sub_returned' = sub_returned
       ELSE IF construction = "quasi-cyclic"
       THEN sub_pc' = "done" /\ sub_returned' = qc_graph'
       ELSE sub_pc' = "permute" /\ sub_returned' = sub_returned
    /\ UNCHANGED <<construction, factor, num_ones_per_row, start, trial_outcome,
                   absorbed, perm_i, put_aliases>>
    /\ UNCHANGED <<regularVars, liftVars>>

\* TannerGraph.permute_rows: the check nodes in a random order
permute_rows(graph, sigma) == [row \in DOMAIN graph |-> graph[sigma[row + 1]]]

\* TannerGraph.permute_columns: every variable index through a random
\* permutation
permute_columns(graph, pi) ==
    [row \in DOMAIN graph |-> [p \in 1..Len(graph[row]) |-> pi[graph[row][p] + 1]]]

\* submatrix, permuted-quasi-cyclic: permute_rows, permute_columns, return
PermuteRowsColumns ==
    /\ sub_pc = "permute"
    /\ \E sigma \in Samples(factor, factor), pi \in Samples(factor, factor) :
          qc_graph' = permute_columns(permute_rows(qc_graph, sigma), pi)
    /\ sub_returned' = qc_graph'
    /\ sub_pc' = "done"
    /\ UNCHANGED <<construction, factor, num_ones_per_row, start, trial_outcome,
                   absorbed, perm_i, first_row_indices, qc_i, put_aliases>>
    /\ UNCHANGED <<regularVars, liftVars>>

\* submatrix, regular: RegularLDPC([factor, factor, num_ones_per_row],
\* "populate-rows") is constructed
SubmatrixRegular ==
    /\ sub_pc = "call"
    /\ construction = "regular"
    /\ args' = <<factor, factor, num_ones_per_row>>
    /\ method' = "populate-rows"
    /\ pc' = "init"
    /\ height' = 0
    /\ n' = 0
    /\ r' = 0
    /\ c' = 0
    /\ tanner_graph' = NoGraph
    /\ available_indices' = <<>>
    /\ placed_entries' = 0
    /\ i' = 0
    /\ j' = 0
    /\ branch' = "none"
    /\ submatrices' = <<>>
    /\ returned' = NoGraph
    /\ sub_pc' = "regular"
    /\ UNCHANGED <<fallback_taken, error>>
    /\ UNCHANGED <<construction, factor, num_ones_per_row, start, trial_outcome,
                   absorbed, perm_i, qc_graph, first_row_indices, qc_i, put_aliases,
                   sub_returned>>
    /\ UNCHANGED liftVars

\* submatrix, regular: the constructed object is returned
SubmatrixRegularReturn ==
    /\ sub_pc = "regular"
    /\ pc = "done"
    /\ sub_returned' = returned
    /\ sub_pc' = "done"
    /\ pc' = "idle"
    /\ UNCHANGED <<args, method, height, n, r, c, tanner_graph, available_indices,
                   placed_entries, i, j, branch, fallback_taken, submatrices,
                   returned, error>>
    /\ UNCHANGED <<construction, factor, num_ones_per_row, start, trial_outcome,
                   absorbed, perm_i, qc_graph, first_row_indices, qc_i, put_aliases>>
    /\ UNCHANGED liftVars

ConstructionNames == {"permutation", "regular", "quasi-cyclic", "permuted-quasi-cyclic"}

\* submatrix: raise RuntimeError('Invalid construction method')
SubmatrixInvalid ==
    /\ sub_pc = "call"
    /\ construction \notin ConstructionNames
    /\ error' = "Invalid construction method"
    /\ sub_pc' = "error"
    /\ UNCHANGED <<args, method, height, n, r, c, tanner_graph, available_indices,
                   placed_entries, i, j, branch, fallback_taken, submatrices,
                   returned, pc>>
    /\ UNCHANGED <<construction, factor, num_ones_per_row, start, trial_outcome,
                   absorbed, perm_i, qc_graph, first_row_indices, qc_i, put_aliases,
                   sub_returned>>
    /\ UNCHANGED liftVars

\* ------------------------------------ ProtographLDPC.expanded_protograph

\* protograph.height, protograph.width, protograph.get(row, col)
ProtoHeight(proto) == Cardinality(DOMAIN proto)
ProtoWidth(proto) == IF DOMAIN proto = {} THEN 0 ELSE Cardinality(DOMAIN proto[0])
ProtoGet(proto, row, col) == proto[row][col]

\* TannerGraph.insert(submatrix, [row offset, column offset]): every edge of
\* the submatrix is added at the offset
insert(graph, sub, offset) ==
    [row \in DOMAIN graph |->
        IF (row - offset[1]) \in DOMAIN sub
        THEN graph[row] \o [p \in 1..Len(sub[row - offset[1]]) |->
                                sub[row - offset[1]][p] + offset[2]]
        ELSE graph[row]]

\* TannerGraph.insert refuses an edge a row already holds
InsertCollides(graph, sub, offset) ==
    \E row \in DOMAIN graph :
        \E p \in 1..Len(insert(graph, sub, offset)[row]) :
            Count(insert(graph, sub, offset)[row],
                  insert(graph, sub, offset)[row][p]) > 1

\* the protograph entry of the block the loops stand on
CellValue == ProtoGet(protograph, lift_r \div factor, lift_c \div factor)

\* the loop counters after one block, and the return once both loops end
NextBlock ==
    LET last_c == (lift_c + factor >= ProtoWidth(protograph) * factor)
        last_r == last_c /\ (lift_r + factor >= Cardinality(DOMAIN expanded))
    IN  /\ lift_c' = IF last_c THEN 0 ELSE lift_c + factor
        /\ lift_r' = IF last_c THEN lift_r + factor ELSE lift_r
        /\ lift_pc' = IF last_r THEN "done" ELSE "cell"
        /\ lift_returned' = IF last_r THEN expanded' ELSE lift_returned

\* expanded_protograph: the empty graph of protograph.height * factor rows
LiftStart ==
    /\ lift_pc = "call"
    /\ expanded' = EmptyGraph(ProtoHeight(protograph) * factor)
    /\ lift_r' = 0
    /\ lift_c' = 0
    /\ IF ProtoHeight(protograph) * factor = 0 \/ ProtoWidth(protograph) * factor = 0
       THEN lift_pc' = "done" /\ lift_returned' = expanded'
       ELSE lift_pc' = "cell" /\ lift_returned' = lift_returned
    /\ UNCHANGED protograph
    /\ UNCHANGED <<regularVars, subVars>>

\* a block whose protograph entry exceeds the factor: RuntimeError
LiftRaise ==
    /\ lift_pc = "cell"
    /\ CellValue > factor
    /\ error' = "Invalid protograph value for given lift factor"
    /\ lift_pc' = "error"
    /\ UNCHANGED <<args, method, height, n, r, c, tanner_graph, available_indices,
                   placed_entries, i, j, branch, fallback_taken, submatrices,
                   returned, pc>>
    /\ UNCHANGED <<protograph, expanded, lift_r, lift_c, lift_returned>>
    /\ UNCHANGED subVars

\* a block whose protograph entry is 0: continue
LiftSkip ==
    /\ lift_pc = "cell"
    /\ ~(CellValue > factor)
    /\ CellValue = 0
    /\ expanded' = expanded
    /\ NextBlock
    /\ UNCHANGED protograph
    /\ UNCHANGED <<regularVars, subVars>>

\* any other block: submatrix(construction, factor, entry) is called
LiftSubmatrix ==
    /\ lift_pc = "cell"
    /\ ~(CellValue > factor)
    /\ CellValue # 0
    /\ num_ones_per_row' = CellValue
    /\ start' = NoGraph
    /\ trial_outcome' = "none"
    /\ absorbed' = <<>>
    /\ perm_i' = 0
    /\ qc_graph' = NoGraph
    /\ first_row_indices' = <<>>
    /\ qc_i' = 0
    /\ sub_returned' = NoGraph
    /\ sub_pc' = "call"
    /\ lift_pc' = "sub"
    /\ UNCHANGED <<construction, factor, put_aliases>>
    /\ UNCHANGED <<protograph, expanded, lift_r, lift_c, lift_returned>>
    /\ UNCHANGED regularVars

\* the submatrix returned is inserted at [r, c]
LiftInsert ==
    /\ lift_pc = "sub"
    /\ sub_pc = "done"
    /\ sub_pc' = "idle"
    /\ IF InsertCollides(expanded, sub_returned, <<lift_r, lift_c>>)
       THEN /\ error' = "InvalidStructure"
            /\ lift_pc' = "error"
            /\ UNCHANGED <<expanded, lift_r, lift_c, lift_returned>>
       ELSE /\ expanded' = insert(expanded, sub_returned, <<lift_r, lift_c>>)
            /\ NextBlock
            /\ error' = error
    /\ UNCHANGED <<args, method, height, n, r, c, tanner_graph, available_indices,
                   placed_entries, i, j, branch, fallback_taken, submatrices,
                   returned, pc>>
    /\ UNCHANGED <<construction, factor, num_ones_per_row, start, trial_outcome,
                   absorbed, perm_i, qc_graph, first_row_indices, qc_i, put_aliases,
                   sub_returned>>
    /\ UNCHANGED protograph

\* the exception submatrix raised leaves expanded_protograph
LiftSubmatrixFails ==
    /\ lift_pc = "sub"
    /\ sub_pc = "error"
    /\ lift_pc' = "error"
    /\ UNCHANGED <<protograph, expanded, lift_r, lift_c, lift_returned>>
    /\ UNCHANGED <<regularVars, subVars>>

\* ------------------------------------------------------------ specifications

RegularIdle ==
    /\ args = <<>>
    /\ height = 0
    /\ tanner_graph = NoGraph
    /\ available_indices = <<>>
    /\ placed_entries = 0
    /\ i = 0
    /\ j = 0
    /\ branch = "none"
    /\ fallback_taken = FALSE
    /\ submatrices = <<>>
    /\ returned = NoGraph
    /\ error = "none"

RegularUnused ==
    /\ RegularIdle
    /\ method = "none"
    /\ n = 0
    /\ r = 0
    /\ c = 0
    /\ pc = "idle"

SubLocalsIdle ==
    /\ start = NoGraph
    /\ trial_outcome = "none"
    /\ absorbed = <<>>
    /\ perm_i = 0
    /\ qc_graph = NoGraph
    /\ first_row_indices = <<>>
    /\ qc_i = 0
    /\ sub_returned = NoGraph

SubUnused ==
    /\ SubLocalsIdle
    /\ construction = "none"
    /\ factor = 0
    /\ num_ones_per_row = 0
    /\ put_aliases = FALSE
    /\ sub_pc = "idle"

LiftUnused ==
    /\ protograph = <<>>
    /\ expanded = NoGraph
    /\ lift_r = 0
    /\ lift_c = 0
    /\ lift_returned = NoGraph
    /\ lift_pc = "idle"

\* direct calls get_parity_check_graph(n, r, c, method) of the two populate
\* constructions, 1 <= r <= n and c >= 1
InitPopulate ==
    /\ RegularIdle
    /\ SubUnused
    /\ LiftUnused
    /\ method \in {"populate-rows", "populate-columns"}
    /\ n \in 1..MaxN
    /\ c \in 1..MaxBudget
    /\ n * c <= MaxBudget
    /\ r \in 1..n
    /\ pc = "dispatch"

NextPopulate == PopulateSetup \/ PlaceAvailable \/ PlaceFallback

SpecPopulate == InitPopulate /\ [][NextPopulate]_vars

\* direct calls get_parity_check_graph(n, r, c, "gallager"), 1 <= r <= n and
\* c >= 1
InitGallager ==
    /\ RegularIdle
    /\ SubUnused
    /\ LiftUnused
    /\ method = "gallager"
    /\ n \in 1..MaxGallagerN
    /\ r \in 1..n
    /\ c \in 1..MaxGallagerC
    /\ pc = "dispatch"

NextGallager == GallagerSubGraph

SpecGallager == InitGallager /\ [][NextGallager]_vars

\* RegularLDPC([n, height, c], construction)
InitObject ==
    /\ args \in (1..MaxArg) \X (1..MaxArg) \X (1..MaxArg)
    /\ method \in {"gallager", "populate-rows", "populate-columns", "unknown"}
    /\ height = 0
    /\ n = 0
    /\ r = 0
    /\ c = 0
    /\ tanner_graph = NoGraph
    /\ available_indices = <<>>
    /\ placed_entries = 0
    /\ i = 0
    /\ j = 0
    /\ branch = "none"
    /\ fallback_taken = FALSE
    /\ submatrices = <<>>
    /\ returned = NoGraph
    /\ error = "none"
    /\ pc = "init"
    /\ SubUnused
    /\ LiftUnused

NextObject ==
    \/ RegularLDPC_init
    \/ RaiseZeroDivision
    \/ RaiseInvalidMethod
    \/ PopulateSetup
    \/ PlaceAvailable
    \/ PlaceFallback
    \/ FallbackSpins
    \/ GallagerSubGraph

SpecObject == InitObject /\ [][NextObject]_vars

\* direct calls submatrix("permutation", f, k), 1 <= k <= f, and the calls
\* with k = f + 1 that ask for more permutations than fit
InitPermutation ==
    /\ RegularUnused
    /\ LiftUnused
    /\ SubLocalsIdle
    /\ construction = "permutation"
    /\ factor \in 1..MaxPermFactor
    /\ num_ones_per_row \in 1..(factor + 1)
    /\ put_aliases = FALSE
    /\ sub_pc = "call"

NextPermutation == PermutationStart \/ TrialRejected \/ TrialAbsorbed

SpecPermutation == InitPermutation /\ [][NextPermutation]_vars

\* the same under fair random choice: a draw that stays possible does come up
SpecPermutationFair ==
    /\ SpecPermutation
    /\ WF_vars(PermutationStart)
    /\ WF_vars(TrialAbsorbed)

\* direct calls submatrix("quasi-cyclic", f, v), 1 <= v <= f
InitQuasiCyclic ==
    /\ RegularUnused
    /\ LiftUnused
    /\ SubLocalsIdle
    /\ construction = "quasi-cyclic"
    /\ factor \in 1..MaxCyclicFactor
    /\ num_ones_per_row \in 1..factor
    /\ put_aliases \in BOOLEAN
    /\ sub_pc = "call"

NextQuasiCyclic == QuasiCyclicStart \/ CyclicRow

SpecQuasiCyclic == InitQuasiCyclic /\ [][NextQuasiCyclic]_vars

\* the protographs of at most MaxProtoCells cells with entries 0 .. f + 1
Protographs(f) ==
    UNION {[0..(ph - 1) -> [0..(pw - 1) -> 0..(f + 1)]] :
             <<ph, pw>> \in {d \in (1..MaxProtoCells) \X (1..MaxProtoCells) :
                               d[1] * d[2] <= MaxProtoCells}}

\* calls expanded_protograph(protograph, factor, construction)
InitLift ==
    /\ RegularUnused
    /\ SubLocalsIdle
    /\ construction \in ConstructionNames \cup {"unknown"}
    /\ factor \in 1..MaxLiftFactor
    /\ num_ones_per_row = 0
    /\ put_aliases \in (IF construction \in {"quasi-cyclic", "permuted-quasi-cyclic"}
                        THEN BOOLEAN ELSE {FALSE})
    /\ sub_pc = "idle"
    /\ protograph \in Protographs(factor)
    /\ expanded = NoGraph
    /\ lift_r = 0
    /\ lift_c = 0
    /\ lift_returned = NoGraph
    /\ lift_pc = "call"

NextLift ==
    \/ LiftStart
    \/ LiftRaise
    \/ LiftSkip
    \/ LiftSubmatrix
    \/ LiftInsert
    \/ LiftSubmatrixFails
    \/ SubmatrixInvalid
    \/ PermutationStart
    \/ TrialRejected
    \/ TrialAbsorbed
    \/ QuasiCyclicStart
    \/ PermutedQuasiCyclicStart
    \/ CyclicRow
    \/ PermuteRowsColumns
    \/ SubmatrixRegular
    \/ SubmatrixRegularReturn
    \/ RegularLDPC_init
    \/ PopulateSetup
    \/ PlaceAvailable
    \/ PlaceFallback

SpecLift == InitLift /\ [][NextLift]_vars

\* every entry point of the library
Init ==
    \/ InitPopulate
    \/ InitGallager
    \/ InitObject
    \/ InitPermutation
    \/ InitQuasiCyclic
    \/ InitLift

Next == NextObject \/ NextLift

Spec == Init /\ [][Next]_vars

\* --------------------------------------------------------------- properties

\* the check nodes of a graph that list a variable node
RowsHolding(graph, col) == {row \in DOMAIN graph : Count(graph[row], col) > 0}

\* a check node's list has length len, repeats no index and stays in [0, w)
RowRegular(row, len, w) ==
    /\ Len(row) = len
    /\ \A p \in 1..Len(row) : row[p] \in 0..(w - 1) /\ Count(row, row[p]) = 1

PopulateRowsReturned == pc = "done" /\ method = "populate-rows"

\* C2: populate-rows with n % r = 0 returns a graph whose every check node
\* lists exactly r indices, none twice, all in [0, n), whether or not the
\* fallback branch was taken.
C2_RowsExactlyR ==
    (PopulateRowsReturned /\ n % r = 0) =>
        \A row \in DOMAIN returned : RowRegular(returned[row], r, n)

\* C2 witness: a returned graph of a run with n % r = 0 that took the fallback
C2_Witness ==
    PopulateRowsReturned /\ n % r = 0 /\ fallback_taken /\ DOMAIN returned # {}

\* C3 as stated: populate-rows with any 1 <= r <= n, no fallback taken: every
\* column index occurs in exactly c check nodes.
C3_ColumnsExactlyC_AnyR ==
    (PopulateRowsReturned /\ ~fallback_taken) =>
        \A col \in 0..(n - 1) : Cardinality(RowsHolding(returned, col)) = c

\* C3 amended: the same for r dividing n * c.
C3_ColumnsExactlyC ==
    (PopulateRowsReturned /\ ~fallback_taken /\ (n * c) % r = 0) =>
        \A col \in 0..(n - 1) : Cardinality(RowsHolding(returned, col)) = c

\* C3 witness: a fallback-free return with r dividing n * c, r < n, c > 1
C3_Witness ==
    PopulateRowsReturned /\ ~fallback_taken /\ (n * c) % r = 0 /\ 1 < r /\ r < n /\ c > 1

\* C8: the fallback branch of populate-rows and populate-columns is entered
\* only with placed_entries = n * c, that is with available_indices empty.
\* (The fallback placement changes neither, so the state after it shows them
\* as they were on entry.)
C8_FallbackOnlyWhenBudgetConsumed ==
    branch = "fallback" => (placed_entries = n * c /\ available_indices = <<>>)

\* C4: gallager, any 1 <= r <= n, c >= 1: the merged graph has c * (n // r)
\* check nodes, indexed exactly 0 .. c*(n//r) - 1, each listing r distinct
\* variable indices in [0, n).
C4_GallagerShape ==
    (pc = "done" /\ method = "gallager") =>
        /\ Cardinality(DOMAIN returned) = c * (n \div r)
        /\ DOMAIN returned = 0..(c * (n \div r) - 1)
        /\ \A row \in DOMAIN returned : RowRegular(returned[row], r, n)

\* C10: a RegularLDPC built from args [n, height, c] has as many check-node
\* rows in its tanner_graph as its height attribute says.
C10_RowsEqualHeight ==
    (pc = "done" /\ args # <<>>) => Cardinality(DOMAIN returned) = height

\* the set of indices a list holds
Indices(row) == {row[p] : p \in 1..Len(row)}

PermutationReturned == sub_pc = "done" /\ construction = "permutation"

\* C5: submatrix("permutation", f, k), 1 <= k <= f, returns the union of k
\* pairwise non-overlapping permutations of size f: every row lists exactly k
\* distinct columns and every column occurs in exactly k rows; no absorbed
\* permutation shares a cell with the ones absorbed before it.
C5_PermutationSum ==
    PermutationReturned =>
        /\ Len(absorbed) = num_ones_per_row
        /\ \A a, b \in 1..Len(absorbed) :
              a # b => ~overlaps(Identity(absorbed[a]), Identity(absorbed[b]))
        /\ \A row \in 0..(factor - 1) :
              /\ Indices(sub_returned[row]) =
                    {absorbed[a][row + 1] : a \in 1..Len(absorbed)}
              /\ RowRegular(sub_returned[row], num_ones_per_row, factor)
        /\ DOMAIN sub_returned = 0..(factor - 1)
        /\ \A col \in 0..(factor - 1) :
              Cardinality(RowsHolding(sub_returned, col)) = num_ones_per_row

\* C5 witness: a returned sum of three permutations of size three
C5_Witness == PermutationReturned /\ num_ones_per_row = 3 /\ Len(absorbed) = 3

\* C9: under fair random choice the rejection loop ends for every k <= f:
\* whenever the loop stands with fewer than k permutations accumulated, some
\* permutation of size f does not overlap the accumulated graph, and the call
\* returns.
C9_RejectionLoopEnds ==
    /\ []((sub_pc = "loop" /\ num_ones_per_row <= factor) =>
            \E sample \in Samples(factor, factor) : ~overlaps(start, Identity(sample)))
    /\ (num_ones_per_row <= factor => <>(sub_pc = "done"))

\* C9 witness: the loop stands with two of three permutations accumulated and
\* has just drawn a candidate that overlaps them
C9_Witness ==
    /\ sub_pc = "loop"
    /\ num_ones_per_row = 3
    /\ Len(absorbed) = 2
    /\ trial_outcome = "rejected"

QuasiCyclicReturned == sub_pc = "done" /\ construction = "quasi-cyclic"

\* C6: the quasi-cyclic submatrix of size f and multiplicity v, 1 <= v <= f:
\* the index set of row x + 1 is that of row x advanced by one modulo f, for
\* x = 0 .. f-2, and every row holds exactly v distinct indices in [0, f).
C6_CyclicShift ==
    QuasiCyclicReturned =>
        /\ DOMAIN sub_returned = 0..(factor - 1)
        /\ \A x \in 0..(factor - 2) :
              Indices(sub_returned[x + 1]) =
                 {(y + 1) % factor : y \in Indices(sub_returned[x])}
        /\ \A x \in 0..(factor - 1) :
              RowRegular(sub_returned[x], num_ones_per_row, factor)

\* C6 witness: a returned circulant with 1 < v < f
C6_Witness ==
    QuasiCyclicReturned /\ 1 < num_ones_per_row /\ num_ones_per_row < factor

\* the entries of one check node that fall in the block of columns at base
BlockEntries(row, base, f) == {p \in 1..Len(row) : row[p] \in base..(base + f - 1)}

\* the block at protograph cell (br, bc) has row and column weight exactly v
BlockRegular(graph, br, bc, f, v) ==
    /\ \A x \in (br * f)..(br * f + f - 1) :
          /\ Cardinality(BlockEntries(graph[x], bc * f, f)) = v
          /\ \A p \in BlockEntries(graph[x], bc * f, f) : Count(graph[x], graph[x][p]) = 1
    /\ \A y \in (bc * f)..(bc * f + f - 1) :
          Cardinality({x \in (br * f)..(br * f + f - 1) : Count(graph[x], y) > 0}) = v

\* C1: expanded_protograph under "permutation", "regular" and "quasi-cyclic":
\* an entry above f fails the construction and no graph is returned; in a
\* returned graph the block of an entry 0 has no edge and the block of an entry
\* 0 < v <= f has row weight v in each of its f rows and column weight v in
\* each of its f columns.
C1_LiftedBlocks ==
    construction \in {"permutation", "regular", "quasi-cyclic"} =>
        /\ (\E br \in DOMAIN protograph : \E bc \in DOMAIN protograph[br] :
               protograph[br][bc] > factor)
           => (lift_pc # "done" /\ lift_returned = NoGraph)
        /\ lift_pc = "done" =>
              \A br \in DOMAIN protograph : \A bc \in DOMAIN protograph[br] :
                  BlockRegular(lift_returned, br, bc, factor, protograph[br][bc])

\* C7: a construction name outside the four known ones fails with the
\* invalid-construction error for every protograph and lift factor; no graph
\* is returned.
C7_UnknownConstructionFails ==
    (lift_pc # "idle" /\ construction \notin ConstructionNames) =>
        /\ lift_pc # "done"
        /\ lift_returned = NoGraph
        /\ lift_pc = "error" => error = "Invalid construction method"

====
